---------------------------- MODULE Spec2Model ----------------------------
(* Model of verify_models.py: verify_model_file (the per-file check) and   *)
(* main (the loop over the catalog and the summary).                       *)
(*                                                                         *)
(* The file system is the environment.  `file` is the state of the file at *)
(* the path being verified; it is revealed when the call starts (main      *)
(* looks at each path in one iteration only) and the environment may       *)
(* remove it or revoke access to it between two system calls of the        *)
(* program.  verify_model_file is therefore split at its system calls:     *)
(* os.path.exists, os.path.getsize, torch.load, and the inspection of the  *)
(* loaded object.                                                          *)
(*                                                                         *)
(* Sizes are kept in bytes.  file_size_mb = bytes / (1024 * 1024) is exact *)
(* in binary floating point (a division by a power of two), so the         *)
(* comparison  k < file_size_mb  is  k * MiB < bytes.                      *)
EXTENDS Integers, Sequences, FiniteSets, TLC

VARIABLES
    pc,            \* position of the program
    i,             \* main: index of the catalog entry the for loop is at
    results,       \* main: the results dict, in insertion order
    report,        \* main: what the summary printed
    exit_code,     \* process exit status, -1 while running
    filepath,      \* verify_model_file: argument
    model_name,    \* verify_model_file: argument
    file_size_mb,  \* verify_model_file: local, in bytes (see above), -1 unset
    checkpoint,    \* verify_model_file: local, the loaded object
    e,             \* verify_model_file: str(e) of the caught exception
    log,           \* lines printed by the current verify_model_file call
    ret,           \* verify_model_file: return value, meaningful at "returned"
    exc,           \* exception propagating out of verify_model_file, "" none
    file           \* environment: the file at filepath

vars == <<pc, i, results, report, exit_code, filepath, model_name,
          file_size_mb, checkpoint, e, log, ret, exc, file>>

mainVars == <<i, results, report, exit_code>>

-----------------------------------------------------------------------------
(* Bounds and program constants *)

MaxKeys == 6

MiB == 1048576

SampleLimit == 5

models_to_check ==
    << [name |-> "VGG16",       path |-> "vgg16/vgg16_weights.pth"],
       [name |-> "ResNet18",    path |-> "resnet18/resnet18_weights.pth"],
       [name |-> "MobileNetV2", path |-> "mobilenet/mobilenet_weights.pth"],
       [name |-> "AlexNet",     path |-> "alexnet/alexnet_weights.pth"],
       [name |-> "ViT",         path |-> "vit/vit_weights.pth"] >>

CatalogNames == { models_to_check[k].name : k \in 1..Len(models_to_check) }

\* A label verify_model_file has no size branch for.
OtherNames == { "DenseNet" }

\* The sizes in megabytes the branches of lines 43-52 compare against.
Thresholds == { 10, 20, 40, 60, 200, 250, 300, 400 }

\* File sizes in bytes: each threshold exactly, one byte below and one byte
\* above it, and the sizes of the scenarios (5 MB, 47 MB) and a tiny file.
FileSizes ==
    { k * MiB + d : k \in Thresholds, d \in {-1, 0, 1} }
        \cup { 1, 5 * MiB, 47 * MiB }

-----------------------------------------------------------------------------
(* The environment: what can be at a path *)

Missing == [kind |-> "missing", bytes |-> 0, nkeys |-> 0]

\* kind: "missing"   nothing at the path
\*       "noaccess"  the directory of the path cannot be searched (stat fails)
\*       "empty"     a file of 0 bytes
\*       "truncated" a checkpoint cut short
\*       "foreign"   not a serialized object at all
\*       "unreadable" a file that cannot be opened for reading (stat works)
\*       "tensor", "list"  a serialized object that is not a dict
\*       "dict"      a serialized dict (a state dict) with nkeys keys
FailingKinds == { "truncated", "foreign", "unreadable" }
NonDictKinds == { "tensor", "list" }

FileStates ==
    { Missing,
      [kind |-> "noaccess", bytes |-> 0, nkeys |-> 0],
      [kind |-> "empty", bytes |-> 0, nkeys |-> 0] }
    \cup [kind : FailingKinds \cup NonDictKinds, bytes : FileSizes, nkeys : {0}]
    \cup [kind : {"dict"}, bytes : FileSizes, nkeys : 0..MaxKeys]

\* os.path.exists: True when os.stat succeeds, False on any OSError.
PathExists(f) == f.kind \notin { "missing", "noaccess" }

\* The exception os.path.getsize (os.stat) raises, "" when it succeeds.
StatError(f) ==
    CASE f.kind = "missing"  -> "FileNotFoundError"
      [] f.kind = "noaccess" -> "PermissionError"
      [] OTHER               -> ""

\* str(e) of the exception torch.load raises, "" when it returns an object.
LoadError(f) ==
    CASE f.kind = "missing"    -> "No such file or directory"
      [] f.kind = "noaccess"   -> "Permission denied"
      [] f.kind = "unreadable" -> "Permission denied"
      [] f.kind = "empty"      -> "Ran out of input"
      [] f.kind = "truncated"  -> "failed finding central directory"
      [] f.kind = "foreign"    -> "invalid load key"
      [] OTHER                 -> ""

NoObject == [type |-> "unset", keys |-> << >>]

\* The object torch.load returns.  The keys of a dict are named 1..nkeys in
\* its iteration order.
LoadedObject(f) ==
    IF f.kind = "dict"
    THEN [type |-> "dict", keys |-> [k \in 1..f.nkeys |-> k]]
    ELSE [type |-> f.kind, keys |-> << >>]

\* isinstance(checkpoint, dict)
IsDict(obj) == obj.type = "dict"

-----------------------------------------------------------------------------
(* Printed lines *)

Line(tag, text, num) == [tag |-> tag, text |-> text, num |-> num]

Tags(l) == { l[k].tag : k \in 1..Len(l) }

Has(tag) == tag \in Tags(log)

\* list(checkpoint.keys())[:5]
FirstKeys(obj) ==
    SubSeq(obj.keys, 1, IF Len(obj.keys) < SampleLimit THEN Len(obj.keys) ELSE SampleLimit)

NameLines(names) == [k \in 1..Len(names) |-> Line("name", "", names[k])]


-----------------------------------------------------------------------------
(* verify_model_file *)

\* Mutant of SizeLine: the lower bound of the ResNet18 branch is inclusive.
SizeLine_InclusiveBound(name, bytes) ==
    IF name = "VGG16" /\ bytes > 400 * MiB
    THEN Line("size_ok", "VGG16", 0)
    ELSE IF name = "ResNet18" /\ 40 * MiB <= bytes /\ bytes < 60 * MiB
    THEN Line("size_ok", "ResNet18", 0)
    ELSE IF name = "MobileNetV2" /\ 10 * MiB < bytes /\ bytes < 20 * MiB
    THEN Line("size_ok", "MobileNetV2", 0)
    ELSE IF name = "AlexNet" /\ 200 * MiB < bytes /\ bytes < 250 * MiB
    THEN Line("size_ok", "AlexNet", 0)
    ELSE IF name = "ViT" /\ 300 * MiB < bytes /\ bytes < 400 * MiB
    THEN Line("size_ok", "ViT", 0)
    ELSE Line("size_unusual", name, 0)

\* Mutant of SizeLine: the VGG16 branch does not test the label.
SizeLine_AnyLabel(name, bytes) ==
    IF bytes > 400 * MiB
    THEN Line("size_ok", "VGG16", 0)
    ELSE IF name = "ResNet18" /\ 40 * MiB < bytes /\ bytes < 60 * MiB
    THEN Line("size_ok", "ResNet18", 0)
    ELSE IF name = "MobileNetV2" /\ 10 * MiB < bytes /\ bytes < 20 * MiB
    THEN Line("size_ok", "MobileNetV2", 0)
    ELSE IF name = "AlexNet" /\ 200 * MiB < bytes /\ bytes < 250 * MiB
    THEN Line("size_ok", "AlexNet", 0)
    ELSE IF name = "ViT" /\ 300 * MiB < bytes /\ bytes < 400 * MiB
    THEN Line("size_ok", "ViT", 0)
    ELSE Line("size_unusual", name, 0)

\* Lines 42-54: the if/elif chain over the label and the size.  The line it
\* prints: "File size appropriate for <label of the branch>" or "File size
\* unusual for {model_name}".
SizeLine(name, bytes) ==
    IF name = "VGG16" /\ bytes > 400 * MiB
    THEN Line("size_ok", "VGG16", 0)
    ELSE IF name = "ResNet18" /\ 40 * MiB < bytes /\ bytes < 60 * MiB
    THEN Line("size_ok", "ResNet18", 0)
    ELSE IF name = "MobileNetV2" /\ 10 * MiB < bytes /\ bytes < 20 * MiB
    THEN Line("size_ok", "MobileNetV2", 0)
    ELSE IF name = "AlexNet" /\ 200 * MiB < bytes /\ bytes < 250 * MiB
    THEN Line("size_ok", "AlexNet", 0)
    ELSE IF name = "ViT" /\ 300 * MiB < bytes /\ bytes < 400 * MiB
    THEN Line("size_ok", "ViT", 0)
    ELSE Line("size_unusual", name, 0)

\* Mutant of CheckExists: the missing file is reported but the function does
\* not return.
CheckExists_FallThrough ==
    /\ pc = "exists"
    /\ IF ~PathExists(file)
       THEN log' = log \o << Line("verifying", model_name, 0),
                             Line("not_found", filepath, 0) >>
       ELSE log' = Append(log, Line("verifying", model_name, 0))
    /\ pc' = "getsize"
    /\ UNCHANGED <<mainVars, filepath, model_name, file_size_mb, checkpoint,
                   e, ret, exc, file>>

\* Lines 12-19: the banner and the existence check.
CheckExists ==
    /\ pc = "exists"
    /\ IF ~PathExists(file)
       THEN /\ log' = log \o << Line("verifying", model_name, 0),
                                Line("not_found", filepath, 0) >>
            /\ ret' = FALSE
            /\ pc' = "returned"
       ELSE /\ log' = Append(log, Line("verifying", model_name, 0))
            /\ ret' = ret
            /\ pc' = "getsize"
    /\ UNCHANGED <<mainVars, filepath, model_name, file_size_mb, checkpoint,
                   e, exc, file>>

\* Lines 21-24: os.path.getsize, outside any try block: an OSError leaves
\* verify_model_file.
GetSize ==
    /\ pc = "getsize"
    /\ IF StatError(file) # ""
       THEN /\ exc' = StatError(file)
            /\ pc' = "raised"
            /\ UNCHANGED <<file_size_mb, log>>
       ELSE /\ file_size_mb' = file.bytes
            /\ log' = log \o << Line("file", filepath, 0),
                                Line("size", "", file.bytes) >>
            /\ pc' = "load"
            /\ exc' = exc
    /\ UNCHANGED <<mainVars, filepath, model_name, checkpoint, e, ret, file>>

\* Mutant of Load: "File is loadable" is printed before torch.load is called.
Load_LoadableFirst ==
    /\ pc = "load"
    /\ IF LoadError(file) # ""
       THEN /\ e' = LoadError(file)
            /\ log' = log \o << Line("loadable", "", 0),
                                Line("error", LoadError(file), 0) >>
            /\ ret' = FALSE
            /\ pc' = "returned"
            /\ checkpoint' = checkpoint
       ELSE /\ checkpoint' = LoadedObject(file)
            /\ log' = Append(log, Line("loadable", "", 0))
            /\ pc' = "inspect"
            /\ UNCHANGED <<e, ret>>
    /\ UNCHANGED <<mainVars, filepath, model_name, file_size_mb, exc, file>>

\* Lines 27-29 and 61-63: torch.load inside the try block; every Exception is
\* caught, its message printed, and False returned.
Load ==
    /\ pc = "load"
    /\ IF LoadError(file) # ""
       THEN /\ e' = LoadError(file)
            /\ log' = Append(log, Line("error", LoadError(file), 0))
            /\ ret' = FALSE
            /\ pc' = "returned"
            /\ checkpoint' = checkpoint
       ELSE /\ checkpoint' = LoadedObject(file)
            /\ log' = Append(log, Line("loadable", "", 0))
            /\ pc' = "inspect"
            /\ UNCHANGED <<e, ret>>
    /\ UNCHANGED <<mainVars, filepath, model_name, file_size_mb, exc, file>>

\* Mutant of Inspect: an unusual size makes the verdict False.
Inspect_SizeDecides ==
    /\ pc = "inspect"
    /\ IF IsDict(checkpoint)
       THEN /\ log' = log \o << Line("layers", "", Len(checkpoint.keys)),
                                Line("first5", "", 0) >>
                          \o NameLines(FirstKeys(checkpoint))
                          \o << SizeLine(model_name, file_size_mb) >>
            /\ ret' = (SizeLine(model_name, file_size_mb).tag = "size_ok")
       ELSE /\ log' = Append(log, Line("not_state_dict", "", 0))
            /\ ret' = FALSE
    /\ pc' = "returned"
    /\ UNCHANGED <<mainVars, filepath, model_name, file_size_mb, checkpoint,
                   e, exc, file>>

\* Mutant of Inspect: the object that is not a dict is reported and the
\* function still returns True.
Inspect_NoTypeCheck ==
    /\ pc = "inspect"
    /\ IF IsDict(checkpoint)
       THEN log' = log \o << Line("layers", "", Len(checkpoint.keys)),
                             Line("first5", "", 0) >>
                       \o NameLines(FirstKeys(checkpoint))
                       \o << SizeLine(model_name, file_size_mb) >>
       ELSE log' = Append(log, Line("not_state_dict", "", 0))
    /\ ret' = TRUE
    /\ pc' = "returned"
    /\ UNCHANGED <<mainVars, filepath, model_name, file_size_mb, checkpoint,
                   e, exc, file>>

\* Lines 31-59: the inspection of the loaded object.
Inspect ==
    /\ pc = "inspect"
    /\ IF IsDict(checkpoint)
       THEN /\ log' = log \o << Line("layers", "", Len(checkpoint.keys)),
                                Line("first5", "", 0) >>
                          \o NameLines(FirstKeys(checkpoint))
                          \o << SizeLine(model_name, file_size_mb) >>
            /\ ret' = TRUE
       ELSE /\ log' = Append(log, Line("not_state_dict", "", 0))
            /\ ret' = FALSE
    /\ pc' = "returned"
    /\ UNCHANGED <<mainVars, filepath, model_name, file_size_mb, checkpoint,
                   e, exc, file>>

\* Environment: the file is removed while verify_model_file is between two
\* system calls.
Unlink ==
    /\ pc \in {"getsize", "load"}
    /\ PathExists(file)
    /\ file' = Missing
    /\ UNCHANGED <<pc, mainVars, filepath, model_name, file_size_mb,
                   checkpoint, e, log, ret, exc>>

\* Environment: access to the directory of the path is revoked while
\* verify_model_file is between two system calls.
Revoke ==
    /\ pc \in {"getsize", "load"}
    /\ PathExists(file)
    /\ file' = [kind |-> "noaccess", bytes |-> 0, nkeys |-> 0]
    /\ UNCHANGED <<pc, mainVars, filepath, model_name, file_size_mb,
                   checkpoint, e, log, ret, exc>>

-----------------------------------------------------------------------------
(* main *)

NoReport ==
    [valid_count |-> -1, total_count |-> -1, lines |-> << >>,
     readiness |-> "none", missing |-> -1]

\* results[model_name] = value on an insertion-ordered dict.
DictSet(d, name, value) ==
    IF \E k \in 1..Len(d) : d[k].name = name
    THEN [k \in 1..Len(d) |->
             IF d[k].name = name THEN [name |-> name, valid |-> value] ELSE d[k]]
    ELSE Append(d, [name |-> name, valid |-> value])

\* Lines 81-82: the for statement takes the next catalog entry and calls
\* verify_model_file, or ends.
LoopNext ==
    /\ pc = "loop"
    /\ \/ /\ i <= Len(models_to_check)
          /\ model_name' = models_to_check[i].name
          /\ filepath' = models_to_check[i].path
          /\ file' \in FileStates
          /\ pc' = "exists"
       \/ /\ i > Len(models_to_check)
          /\ pc' = "summary"
          /\ UNCHANGED <<model_name, filepath, file>>
    /\ UNCHANGED <<mainVars, file_size_mb, checkpoint, e, log, ret, exc>>

\* Line 82: the returned verdict is stored; the frame of the call is gone.
StoreResult ==
    /\ pc = "returned"
    /\ results' = DictSet(results, model_name, ret)
    /\ i' = i + 1
    /\ pc' = "loop"
    /\ file_size_mb' = -1
    /\ checkpoint' = NoObject
    /\ e' = ""
    /\ log' = << >>
    /\ ret' = FALSE
    /\ file' = Missing
    /\ UNCHANGED <<report, exit_code, filepath, model_name, exc>>

\* Lines 82 and 110-111: nothing in main catches an exception of
\* verify_model_file; the interpreter prints the traceback and exits 1.
Propagate ==
    /\ pc = "raised"
    /\ pc' = "exited"
    /\ exit_code' = 1
    /\ UNCHANGED <<i, results, report, filepath, model_name, file_size_mb,
                   checkpoint, e, log, ret, exc, file>>

RECURSIVE ValidCount_Leading(_)
\* Mutant of ValidCount: the count stops at the first False.
ValidCount_Leading(d) ==
    IF d = << >> THEN 0
    ELSE IF Head(d).valid THEN 1 + ValidCount_Leading(Tail(d)) ELSE 0

RECURSIVE ValidCount(_)
\* Line 89: sum(results.values()), True counting 1 and False 0.
ValidCount(d) ==
    IF d = << >> THEN 0
    ELSE (IF Head(d).valid THEN 1 ELSE 0) + ValidCount(Tail(d))

\* Lines 92-94: one status line per entry, in the dict's order.
StatusLines(d) ==
    [k \in 1..Len(d) |->
        [name |-> d[k].name,
         status |-> IF d[k].valid THEN "Valid" ELSE "Missing/Invalid"]]

\* Lines 98-106: the closing message.
Readiness(valid_count, total_count) ==
    IF valid_count = total_count THEN "all_ready"
    ELSE IF valid_count > 0 THEN "partial"
    ELSE "none_ready"

\* Lines 89-106: everything the summary prints.
SummaryOf(d) ==
    [valid_count |-> ValidCount(d),
     total_count |-> Len(d),
     lines       |-> StatusLines(d),
     readiness   |-> Readiness(ValidCount(d), Len(d)),
     missing     |-> Len(d) - ValidCount(d)]

\* Lines 84-108 and the normal end of the script.
Summary ==
    /\ pc = "summary"
    /\ report' = SummaryOf(results)
    /\ pc' = "exited"
    /\ exit_code' = 0
    /\ UNCHANGED <<i, results, filepath, model_name, file_size_mb,
                   checkpoint, e, log, ret, exc, file>>

-----------------------------------------------------------------------------
(* Specifications *)

FrameInit ==
    /\ file_size_mb = -1
    /\ checkpoint = NoObject
    /\ e = ""
    /\ log = << >>
    /\ ret = FALSE
    /\ exc = ""

\* The script run as a program: main() from its first line.
Init ==
    /\ pc = "loop"
    /\ i = 1
    /\ results = << >>
    /\ report = NoReport
    /\ exit_code = -1
    /\ filepath = ""
    /\ model_name = ""
    /\ file = Missing
    /\ FrameInit

Next ==
    \/ LoopNext
    \/ CheckExists
    \/ GetSize
    \/ Load
    \/ Inspect
    \/ Unlink
    \/ Revoke
    \/ StoreResult
    \/ Propagate
    \/ Summary

Spec == Init /\ [][Next]_vars

\* verify_model_file called on its own, with any label and any file.
InitVerify ==
    /\ pc = "exists"
    /\ i = 1
    /\ results = << >>
    /\ report = NoReport
    /\ exit_code = -1
    /\ filepath = "weights.pth"
    /\ model_name \in CatalogNames \cup OtherNames
    /\ file \in FileStates
    /\ FrameInit

NextVerify ==
    \/ CheckExists
    \/ GetSize
    \/ Load
    \/ Inspect
    \/ Unlink
    \/ Revoke

SpecVerify == InitVerify /\ [][NextVerify]_vars

\* Every insertion-ordered dict of verdicts over the catalog's labels.
ResultDicts ==
    UNION { { d \in [1..n -> [name : CatalogNames, valid : BOOLEAN]] :
                \A a, b \in 1..n : a # b => d[a].name # d[b].name } :
            n \in 0..Len(models_to_check) }

\* The summary block applied to any results dict.
InitSummary ==
    /\ pc = "summary"
    /\ i = 1
    /\ results \in ResultDicts
    /\ report = NoReport
    /\ exit_code = -1
    /\ filepath = ""
    /\ model_name = ""
    /\ file = Missing
    /\ FrameInit

NextSummary == Summary

SpecSummary == InitSummary /\ [][NextSummary]_vars

-----------------------------------------------------------------------------
(* Properties *)

\* The last line the current call printed.
LastLine == log[Len(log)]

\* The size ranges as the specification states them, in megabytes; hi = 0
\* stands for no upper bound.
ExpectedRange(name) ==
    CASE name = "VGG16"       -> [lo |-> 400, hi |-> 0]
      [] name = "ResNet18"    -> [lo |-> 40,  hi |-> 60]
      [] name = "MobileNetV2" -> [lo |-> 10,  hi |-> 20]
      [] name = "AlexNet"     -> [lo |-> 200, hi |-> 250]
      [] name = "ViT"         -> [lo |-> 300, hi |-> 400]

HasRange(name) == name \in {"VGG16", "ResNet18", "MobileNetV2", "AlexNet", "ViT"}

StrictlyInside(name, bytes) ==
    /\ HasRange(name)
    /\ bytes > ExpectedRange(name).lo * MiB
    /\ \/ ExpectedRange(name).hi = 0
       \/ bytes < ExpectedRange(name).hi * MiB

\* C1: verify_model_file returns a verdict for every file state, also when
\* the file disappears or becomes unreachable between the existence check and
\* the size measurement; no exception leaves the function.
C1_NeverRaises == pc # "raised" /\ exc = ""

\* C2: in every result, valid is true exactly when the file existed, the load
\* succeeded and the loaded object is a mapping; a valid result reports the
\* file as existing and loadable.
C2_ValidIff ==
    pc = "returned" =>
        /\ ret <=> (/\ file_size_mb # -1
                    /\ e = ""
                    /\ checkpoint # NoObject
                    /\ IsDict(checkpoint))
        /\ ret => (~Has("not_found") /\ Has("loadable") /\ ~Has("error"))

C2_Witness ==
    /\ pc = "returned"
    /\ ret
    /\ file.kind = "dict"
    /\ Has("loadable")

\* C3: when nothing exists at the path, the existence check returns False at
\* once: the size is not measured, the load is not attempted, and no
\* parameter count or sample name is printed.
C3_MissingReturnsAtOnce ==
    [][(pc = "exists" /\ ~PathExists(file)) =>
          /\ pc' = "returned"
          /\ ret' = FALSE
          /\ file_size_mb' = -1
          /\ checkpoint' = NoObject
          /\ e' = ""
          /\ log' = << Line("verifying", model_name, 0),
                       Line("not_found", filepath, 0) >>]_vars

C3_Witness ==
    /\ pc = "returned"
    /\ file.kind = "missing"
    /\ Has("not_found")
    /\ ~ret
    /\ file_size_mb = -1

\* C4: whatever the five files are, main verifies every catalog entry once,
\* in catalog order, prints the summary and ends with exit status 0.
C4_RunCompletes ==
    pc = "exited" =>
        /\ exit_code = 0
        /\ report # NoReport
        /\ [k \in 1..Len(results) |-> results[k].name]
             = [k \in 1..Len(models_to_check) |-> models_to_check[k].name]

\* The readiness outcome as the specification states it.
SpecReadiness(valid_count, total_count) ==
    IF valid_count = 0 THEN "none_ready"
    ELSE IF valid_count = total_count /\ total_count > 0 THEN "all_ready"
    ELSE "partial"

C6_SizeNeverDecides ==
    /\ (Has("size_ok") \/ Has("size_unusual")) =>
           /\ pc = "returned"
           /\ IsDict(checkpoint)
           /\ Has("loadable")
           /\ Has("layers")
           /\ ret
    /\ (pc = "returned" /\ IsDict(checkpoint)) =>
           /\ ret
           /\ Has("size_ok") # Has("size_unusual")

C6_Witness ==
    /\ pc = "returned"
    /\ model_name = "MobileNetV2"
    /\ file_size_mb = 5 * MiB
    /\ Has("size_unusual")
    /\ ret

\* The size classification a result carries.
SizeClass ==
    IF Has("size_ok") THEN "appropriate"
    ELSE IF Has("size_unusual") THEN "unusual"
    ELSE "none"

\* C7 as stated: a valid file whose label has no size range gets a third
\* classification, neither appropriate nor the unusual of an out-of-range size.
C7_UnknownOutcome ==
    (pc = "returned" /\ ret /\ ~HasRange(model_name)) =>
        SizeClass \notin {"appropriate", "unusual"}

\* C7 amended: a valid file whose label has no size range gets the line
\* "File size unusual for <label>", the same outcome as an out-of-range size
\* of a label that has a range; there is no third outcome.
C7_UnlistedIsUnusual ==
    (pc = "returned" /\ ret) =>
        /\ SizeClass \in {"appropriate", "unusual"}
        /\ ~HasRange(model_name) =>
               /\ SizeClass = "unusual"
               /\ LastLine = Line("size_unusual", model_name, 0)
        /\ (HasRange(model_name) /\ ~StrictlyInside(model_name, file_size_mb)) =>
               LastLine = Line("size_unusual", model_name, 0)

C7_Witness ==
    /\ pc = "returned"
    /\ ret
    /\ model_name = "DenseNet"
    /\ file_size_mb > 400 * MiB
    /\ Has("size_unusual")

\* results in another order.
Permute(d, p) == [k \in 1..Len(d) |-> d[p[k]]]

\* C8: for every permutation of the verdicts the summary has the same
\* valid_count, total_count and readiness; only the order of the status lines
\* follows the permutation.
C8_OrderIndependent ==
    report # NoReport =>
        \A p \in Permutations(1..Len(results)) :
            /\ SummaryOf(Permute(results, p)).valid_count = report.valid_count
            /\ SummaryOf(Permute(results, p)).total_count = report.total_count
            /\ SummaryOf(Permute(results, p)).readiness = report.readiness
            /\ SummaryOf(Permute(results, p)).lines = Permute(report.lines, p)

C8_Witness ==
    /\ report # NoReport
    /\ Len(results) = 5
    /\ report.valid_count = 3
    /\ ~results[1].valid
    /\ report.readiness = "partial"

\* C9: a failed load gives exists, not loadable, not valid, with the message
\* of the failure as the last line; a loaded object that is not a mapping
\* gives exists, loadable, not valid, with the "not a state dictionary" line;
\* neither prints a parameter count or sample names.
C9_FailureKinds ==
    pc = "returned" =>
        /\ (file_size_mb # -1 /\ LoadError(file) # "") =>
               /\ e = LoadError(file)
               /\ LastLine = Line("error", e, 0)
               /\ ~Has("not_found")
               /\ ~Has("loadable")
               /\ ~Has("not_state_dict")
               /\ ~ret
               /\ ~Has("layers") /\ ~Has("name")
        /\ (checkpoint # NoObject /\ ~IsDict(checkpoint)) =>
               /\ LastLine = Line("not_state_dict", "", 0)
               /\ ~Has("not_found")
               /\ Has("loadable")
               /\ ~Has("error")
               /\ ~ret
               /\ ~Has("layers") /\ ~Has("name")

C9_Witness ==
    /\ pc = "returned"
    /\ file.kind = "truncated"
    /\ e = "failed finding central directory"
    /\ Has("error")
    /\ ~ret

\* C10: for a valid file the size line says appropriate exactly when the size
\* lies strictly inside the range of the entry's own label; both ends of a
\* range are unusual, and the range of another label never counts.
C10_StrictOwnRange ==
    (pc = "returned" /\ ret) =>
        /\ Has("size_ok") <=> StrictlyInside(model_name, file_size_mb)
        /\ Has("size_ok") => LastLine = Line("size_ok", model_name, 0)
        /\ \A k \in Thresholds :
               (HasRange(model_name) /\ file_size_mb = k * MiB
                  /\ k \in {ExpectedRange(model_name).lo, ExpectedRange(model_name).hi})
               => Has("size_unusual")

C10_Witness ==
    /\ pc = "returned"
    /\ ret
    /\ model_name = "ResNet18"
    /\ file_size_mb = 40 * MiB
    /\ Has("size_unusual")

=============================================================================
